---- MODULE Spec2Model ----
(***************************************************************************)
(* Model of the Java "autofill arguments" extension: the fill command      *)
(* (extension.ts), ArgumentFiller and ArgumentCompletionProvider           *)
(* (autofill).  Strings are sequences of one-character strings; offsets    *)
(* are the 0-based offsets of the TypeScript code.                         *)
(***************************************************************************)
EXTENDS Integers, Sequences, FiniteSets, TLC

VARIABLES
    doc,             \* editor.document text
    cursor,          \* editor.selection.active, as an offset into doc
    languageId,      \* editor.document.languageId; "none" without an active editor
    hasJavaSupport,  \* the redhat.java extension is installed
    config,          \* the stored configuration 'tlcsdm.autofill'
    providerOptions, \* ArgumentCompletionProvider.options
    fpc,             \* position of the fill command: idle, awaiting, done
    fill,            \* locals of the running fill command
    cpc,             \* position of provideCompletionItems: idle, awaiting, done
    comp,            \* locals of the running completion request
    pin,             \* input of a directly applied function
    pout             \* its output

vars == <<doc, cursor, languageId, hasJavaSupport, config, providerOptions,
          fpc, fill, cpc, comp, pin, pout>>

machineVars == <<doc, cursor, languageId, hasJavaSupport, config, providerOptions,
                 fpc, fill, cpc, comp>>

(***************************************************************************)
(* Characters and strings                                                  *)
(***************************************************************************)
UpperCase == <<"A","B","C","D","E","F","G","H","I","J","K","L","M",
               "N","O","P","Q","R","S","T","U","V","W","X","Y","Z">>

LowerCase == <<"a","b","c","d","e","f","g","h","i","j","k","l","m",
               "n","o","p","q","r","s","t","u","v","w","x","y","z">>

Digits == {"0","1","2","3","4","5","6","7","8","9"}

\* /\s/
WhiteSpace == {" ", "\t", "\n"}

\* /[a-zA-Z0-9_]/
IdentChars == {UpperCase[i] : i \in 1..26} \cup {LowerCase[i] : i \in 1..26}
              \cup Digits \cup {"_"}

IsSpace(c) == c \in WhiteSpace

IsIdent(c) == c \in IdentChars

\* String.prototype.toLowerCase on one character
ToLowerChar(c) ==
    IF \E i \in 1..26 : UpperCase[i] = c
    THEN LowerCase[CHOOSE i \in 1..26 : UpperCase[i] = c]
    ELSE c

\* text[i] with a 0-based index; out of range reads give undefined
At(text, i) == IF i >= 0 /\ i < Len(text) THEN text[i + 1] ELSE "undefined"

\* text.substring(from, to) for 0 <= from, to
Substring(text, from, to) ==
    LET a == IF from < to THEN from ELSE to
        b == IF from < to THEN to ELSE from
        lo == IF a > Len(text) THEN Len(text) ELSE a
        hi == IF b > Len(text) THEN Len(text) ELSE b
    IN  SubSeq(text, lo + 1, hi)

RECURSIVE TrimLeft(_)
TrimLeft(s) ==
    IF s # <<>> /\ IsSpace(Head(s)) THEN TrimLeft(Tail(s)) ELSE s

RECURSIVE TrimRight(_)
TrimRight(s) ==
    IF s # <<>> /\ IsSpace(s[Len(s)]) THEN TrimRight(SubSeq(s, 1, Len(s) - 1)) ELSE s

\* String.prototype.trim
Trim(s) == TrimRight(TrimLeft(s))

\* Array.prototype.join
RECURSIVE Join(_, _)
Join(parts, sep) ==
    IF parts = <<>> THEN <<>>
    ELSE IF Len(parts) = 1 THEN parts[1]
    ELSE parts[1] \o sep \o Join(Tail(parts), sep)

\* decimal digits of a number >= 0, as `${n}` prints them
RECURSIVE NumberToString(_)
NumberToString(n) ==
    LET d == <<"0","1","2","3","4","5","6","7","8","9">>
    IN  IF n < 10 THEN <<d[n + 1]>>
        ELSE NumberToString(n \div 10) \o <<d[(n % 10) + 1]>>

(***************************************************************************)
(* ArgumentFiller: locating the call site                                  *)
(***************************************************************************)
\* the backward loop of findMethodCallContext: the '(' found, or -1
RECURSIVE ScanBackward(_, _, _)
ScanBackward(text, i, parenDepth) ==
    IF i < 0 THEN -1
    ELSE IF At(text, i) = ")" THEN ScanBackward(text, i - 1, parenDepth + 1)
    ELSE IF At(text, i) = "("
         THEN IF parenDepth = 0 THEN i
              ELSE ScanBackward(text, i - 1, parenDepth - 1)
    ELSE ScanBackward(text, i - 1, parenDepth)

\* the forward loop of findMethodCallContext stopping at the first ')'
RECURSIVE ScanForwardFirstClose(_, _, _)
ScanForwardFirstClose(text, i, parenDepth) ==
    IF i >= Len(text) THEN -1
    ELSE IF At(text, i) = ")" THEN i
    ELSE ScanForwardFirstClose(text, i + 1, parenDepth)

\* the forward loop of findMethodCallContext: the ')' found, or -1
RECURSIVE ScanForward(_, _, _)
ScanForward(text, i, parenDepth) ==
    IF i >= Len(text) THEN -1
    ELSE IF At(text, i) = "(" THEN ScanForward(text, i + 1, parenDepth + 1)
    ELSE IF At(text, i) = ")"
         THEN IF parenDepth - 1 = 0 THEN i
              ELSE ScanForward(text, i + 1, parenDepth - 1)
    ELSE ScanForward(text, i + 1, parenDepth)

RECURSIVE SkipSpaceBack(_, _)
SkipSpaceBack(text, start) ==
    IF start > 0 /\ IsSpace(At(text, start - 1))
    THEN SkipSpaceBack(text, start - 1) ELSE start

RECURSIVE SkipIdentBack(_, _)
SkipIdentBack(text, start) ==
    IF start > 0 /\ IsIdent(At(text, start - 1))
    THEN SkipIdentBack(text, start - 1) ELSE start

NoMethodName == [found |-> FALSE, name |-> <<>>, isConstructor |-> FALSE]

extractMethodName(text, openParenOffset) ==
    LET end == SkipSpaceBack(text, openParenOffset)
        start == SkipIdentBack(text, end)
        beforeName == SkipSpaceBack(text, start)
    IN  IF start = end THEN NoMethodName
        ELSE [found |-> TRUE,
              name |-> Substring(text, start, end),
              isConstructor |->
                  /\ beforeName >= 3
                  /\ Substring(text, beforeName - 3, beforeName) = <<"n","e","w">>]

NoContext ==
    [found |-> FALSE, methodName |-> <<>>, isConstructor |-> FALSE,
     openParenOffset |-> -1, closeParenOffset |-> -1,
     argumentsStart |-> 0, argumentsLength |-> 0, existingArguments |-> <<>>]

\* findMethodCallContext with the backward scan started at the offset itself
findMethodCallContextFromOffset(text, offset) ==
    LET openParenOffset == ScanBackward(text, offset, 0)
        closeParenOffset == ScanForward(text, openParenOffset + 1, 1)
        methodName == extractMethodName(text, openParenOffset)
    IN  IF openParenOffset = -1 \/ closeParenOffset = -1 \/ ~methodName.found
        THEN NoContext
        ELSE [found |-> TRUE,
              methodName |-> methodName.name,
              isConstructor |-> methodName.isConstructor,
              openParenOffset |-> openParenOffset,
              closeParenOffset |-> closeParenOffset,
              argumentsStart |-> openParenOffset + 1,
              argumentsLength |-> closeParenOffset - openParenOffset - 1,
              existingArguments |->
                  Trim(Substring(text, openParenOffset + 1, closeParenOffset))]

\* findMethodCallContext counting the closing parenthesis into the arguments
findMethodCallContextLengthInclusive(text, offset) ==
    LET scanStart == IF offset > 0 THEN offset - 1 ELSE 0
        openParenOffset == ScanBackward(text, scanStart, 0)
        closeParenOffset == ScanForward(text, openParenOffset + 1, 1)
        methodName == extractMethodName(text, openParenOffset)
    IN  IF openParenOffset = -1 \/ closeParenOffset = -1 \/ ~methodName.found
        THEN NoContext
        ELSE [found |-> TRUE,
              methodName |-> methodName.name,
              isConstructor |-> methodName.isConstructor,
              openParenOffset |-> openParenOffset,
              closeParenOffset |-> closeParenOffset,
              argumentsStart |-> openParenOffset + 1,
              argumentsLength |-> closeParenOffset - openParenOffset,
              existingArguments |->
                  Trim(Substring(text, openParenOffset + 1, closeParenOffset))]

findMethodCallContext(text, offset) ==
    LET scanStart == IF offset > 0 THEN offset - 1 ELSE 0
        openParenOffset == ScanBackward(text, scanStart, 0)
        closeParenOffset == ScanForward(text, openParenOffset + 1, 1)
        methodName == extractMethodName(text, openParenOffset)
    IN  IF openParenOffset = -1 THEN NoContext
        ELSE IF closeParenOffset = -1 THEN NoContext
        ELSE IF ~methodName.found THEN NoContext
        ELSE [found |-> TRUE,
              methodName |-> methodName.name,
              isConstructor |-> methodName.isConstructor,
              openParenOffset |-> openParenOffset,
              closeParenOffset |-> closeParenOffset,
              argumentsStart |-> openParenOffset + 1,
              argumentsLength |-> closeParenOffset - openParenOffset - 1,
              existingArguments |->
                  Trim(Substring(text, openParenOffset + 1, closeParenOffset))]

(***************************************************************************)
(* ArgumentFiller: the language server's signature help                    *)
(***************************************************************************)
\* a MethodParameter[] | null, or the exception a callee threw
NullParams == [kind |-> "null", list |-> <<>>]

ParamList(list) == [kind |-> "list", list |-> list]

ThrownParams == [kind |-> "throw", list |-> <<>>]

\* String.prototype.split(/\s+/)
RECURSIVE SplitSpace(_, _)
SplitSpace(s, cur) ==
    IF s = <<>> THEN <<cur>>
    ELSE IF IsSpace(Head(s)) THEN <<cur>> \o SplitSpace(TrimLeft(s), <<>>)
    ELSE SplitSpace(Tail(s), Append(cur, Head(s)))

ObjectType == <<"O","b","j","e","c","t">>

parseParameterLabel(label) ==
    LET trimmed == Trim(label)
        parts == SplitSpace(trimmed, <<>>)
    IN  IF Len(parts) >= 2
        THEN [name |-> parts[Len(parts)],
              type |-> Join(SubSeq(parts, 1, Len(parts) - 1), <<" ">>)]
        ELSE [name |-> trimmed, type |-> ObjectType]

ArgWord == <<"a","r","g">>

\* the callback of activeSignature.parameters.map; index is 0-based
MapSignatureParameter(activeSignature, param, index) ==
    LET paramLabel == IF param.isString THEN param.text
                      ELSE Substring(activeSignature.label, param.range[1], param.range[2])
        parsed == parseParameterLabel(paramLabel)
    IN  [name |-> IF parsed.name # <<>> THEN parsed.name
                  ELSE ArgWord \o NumberToString(index + 1),
         type |-> IF parsed.type # <<>> THEN parsed.type ELSE ObjectType,
         index |-> index]

\* what follows the await in getParametersFromLanguageServer, given what
\* vscode.executeSignatureHelpProvider answered
getParametersFromLanguageServer(answer) ==
    IF answer.kind = "throw" THEN NullParams
    ELSE IF answer.kind = "undefined" THEN NullParams
    ELSE IF Len(answer.signatures) = 0 THEN NullParams
    ELSE IF answer.activeSignature >= Len(answer.signatures) THEN NullParams
    ELSE LET activeSignature == answer.signatures[answer.activeSignature + 1]
         IN  IF Len(activeSignature.parameters) = 0 THEN NullParams
             ELSE ParamList([i \in 1..Len(activeSignature.parameters) |->
                     MapSignatureParameter(activeSignature,
                                           activeSignature.parameters[i], i - 1)])

(***************************************************************************)
(* ArgumentFiller: the heuristic fallback                                  *)
(***************************************************************************)
\* the loop of countArguments with a string literal closed by either quote
RECURSIVE CountLoopAnyQuote(_, _, _, _, _)
CountLoopAnyQuote(s, count, depth, inString, stringChar) ==
    IF s = <<>> THEN count
    ELSE LET char == Head(s)
             rest == Tail(s)
         IN  IF ~inString
             THEN IF char = "\"" \/ char = "'"
                  THEN CountLoopAnyQuote(rest, count, depth, TRUE, char)
                  ELSE IF char \in {"(", "[", "{"}
                  THEN CountLoopAnyQuote(rest, count, depth + 1, inString, stringChar)
                  ELSE IF char \in {")", "]", "}"}
                  THEN CountLoopAnyQuote(rest, count, depth - 1, inString, stringChar)
                  ELSE IF char = "," /\ depth = 0
                  THEN CountLoopAnyQuote(rest, count + 1, depth, inString, stringChar)
                  ELSE CountLoopAnyQuote(rest, count, depth, inString, stringChar)
             ELSE IF char = "\"" \/ char = "'"
                  THEN CountLoopAnyQuote(rest, count, depth, FALSE, stringChar)
                  ELSE CountLoopAnyQuote(rest, count, depth, inString, stringChar)

\* the loop of countArguments over the remaining characters
RECURSIVE CountLoop(_, _, _, _, _)
CountLoop(s, count, depth, inString, stringChar) ==
    IF s = <<>> THEN count
    ELSE LET char == Head(s)
             rest == Tail(s)
         IN  IF ~inString
             THEN IF char = "\"" \/ char = "'"
                  THEN CountLoop(rest, count, depth, TRUE, char)
                  ELSE IF char \in {"(", "[", "{"}
                  THEN CountLoop(rest, count, depth + 1, inString, stringChar)
                  ELSE IF char \in {")", "]", "}"}
                  THEN CountLoop(rest, count, depth - 1, inString, stringChar)
                  ELSE IF char = "," /\ depth = 0
                  THEN CountLoop(rest, count + 1, depth, inString, stringChar)
                  ELSE CountLoop(rest, count, depth, inString, stringChar)
             ELSE IF char = stringChar
                  THEN CountLoop(rest, count, depth, FALSE, stringChar)
                  ELSE CountLoop(rest, count, depth, inString, stringChar)

countArguments(argsString) ==
    IF Trim(argsString) = <<>> THEN 0
    ELSE CountLoop(argsString, 1, 0, FALSE, "")

knownPatterns == <<
    [key |-> <<"e","q","u","a","l","s">>,
     names |-> <<<<"o","b","j">>>>],
    [key |-> <<"c","o","m","p","a","r","e","T","o">>,
     names |-> <<<<"o","t","h","e","r">>>>],
    [key |-> <<"i","n","d","e","x","O","f">>,
     names |-> <<<<"e","l","e","m","e","n","t">>>>],
    [key |-> <<"c","o","n","t","a","i","n","s">>,
     names |-> <<<<"e","l","e","m","e","n","t">>>>],
    [key |-> <<"a","d","d">>,
     names |-> <<<<"e","l","e","m","e","n","t">>>>],
    [key |-> <<"r","e","m","o","v","e">>,
     names |-> <<<<"e","l","e","m","e","n","t">>>>],
    [key |-> <<"p","u","t">>,
     names |-> <<<<"k","e","y">>, <<"v","a","l","u","e">>>>],
    [key |-> <<"g","e","t">>,
     names |-> <<<<"k","e","y">>>>],
    [key |-> <<"s","u","b","s","t","r","i","n","g">>,
     names |-> <<<<"b","e","g","i","n","I","n","d","e","x">>,
                 <<"e","n","d","I","n","d","e","x">>>>],
    [key |-> <<"r","e","p","l","a","c","e">>,
     names |-> <<<<"o","l","d","V","a","l","u","e">>,
                 <<"n","e","w","V","a","l","u","e">>>>],
    [key |-> <<"s","p","l","i","t">>,
     names |-> <<<<"r","e","g","e","x">>>>],
    [key |-> <<"f","o","r","m","a","t">>,
     names |-> <<<<"f","o","r","m","a","t">>, <<"a","r","g","s">>>>],
    [key |-> <<"p","r","i","n","t","f">>,
     names |-> <<<<"f","o","r","m","a","t">>, <<"a","r","g","s">>>>],
    [key |-> <<"p","r","i","n","t","l","n">>,
     names |-> <<<<"m","e","s","s","a","g","e">>>>],
    [key |-> <<"p","r","i","n","t">>,
     names |-> <<<<"m","e","s","s","a","g","e">>>>],
    [key |-> <<"a","p","p","e","n","d">>,
     names |-> <<<<"s","t","r">>>>],
    [key |-> <<"i","n","s","e","r","t">>,
     names |-> <<<<"o","f","f","s","e","t">>, <<"s","t","r">>>> ] >>

\* Property names every object literal inherits from Object.prototype:
\* knownPatterns[name] yields a function (or the prototype) for them.
ObjectPrototypeKeys == {
    <<"t","o","S","t","r","i","n","g">>,
    <<"v","a","l","u","e","O","f">>,
    <<"c","o","n","s","t","r","u","c","t","o","r">>,
    <<"h","a","s","O","w","n","P","r","o","p","e","r","t","y">>,
    <<"i","s","P","r","o","t","o","t","y","p","e","O","f">>,
    <<"_","_","p","r","o","t","o","_","_">> }

\* knownPatterns[methodName]: an own entry, an inherited non-array value,
\* or undefined
PatternLookup(methodName) ==
    IF \E i \in 1..Len(knownPatterns) : knownPatterns[i].key = methodName
    THEN [kind |-> "array",
          names |-> knownPatterns[CHOOSE i \in 1..Len(knownPatterns) :
                                      knownPatterns[i].key = methodName].names]
    ELSE IF methodName \in ObjectPrototypeKeys
    THEN [kind |-> "inherited", names |-> <<>>]
    ELSE [kind |-> "undefined", names |-> <<>>]

StartsWithSet(methodName) ==
    Len(methodName) >= 3 /\ SubSeq(methodName, 1, 3) = <<"s","e","t">>

\* generatePlaceholderParameters lower-casing the whole remainder of a setter
generatePlaceholderParametersLowerAll(methodName, isConstructor) ==
    IF StartsWithSet(methodName) /\ Len(methodName) > 3
    THEN ParamList(<<[name |-> [i \in 1..(Len(methodName) - 3) |->
                                  ToLowerChar(methodName[i + 3])],
                      type |-> ObjectType,
                      index |-> 0]>>)
    ELSE LET patternParams == PatternLookup(methodName)
         IN  IF patternParams.kind = "array"
             THEN ParamList([i \in 1..Len(patternParams.names) |->
                     [name |-> patternParams.names[i],
                      type |-> ObjectType,
                      index |-> i - 1]])
             ELSE IF patternParams.kind = "inherited"
             THEN ThrownParams
             ELSE ParamList(<<>>)

generatePlaceholderParameters(methodName, isConstructor) ==
    IF StartsWithSet(methodName) /\ Len(methodName) > 3
    THEN ParamList(<<[name |-> <<ToLowerChar(methodName[4])>>
                               \o Substring(methodName, 4, Len(methodName)),
                      type |-> ObjectType,
                      index |-> 0]>>)
    ELSE LET patternParams == PatternLookup(methodName)
         IN  IF patternParams.kind = "array"
             THEN ParamList([i \in 1..Len(patternParams.names) |->
                     [name |-> patternParams.names[i],
                      type |-> ObjectType,
                      index |-> i - 1]])
             ELSE IF patternParams.kind = "inherited"
             THEN ThrownParams  \* patternParams.map is not a function
             ELSE ParamList(<<>>)

\* parseParametersFromContext consulting the heuristics whatever the options
parseParametersFromContextUngated(text, context, options) ==
    IF Len(context.existingArguments) > 0
       /\ countArguments(context.existingArguments) > 0
    THEN NullParams
    ELSE generatePlaceholderParameters(context.methodName, context.isConstructor)

parseParametersFromContext(text, context, options) ==
    IF Len(context.existingArguments) > 0
       /\ countArguments(context.existingArguments) > 0
    THEN NullParams
    ELSE IF options.fallbackToTypeName
    THEN generatePlaceholderParameters(context.methodName, context.isConstructor)
    ELSE NullParams

(***************************************************************************)
(* ArgumentFiller: synthesizing the argument text                          *)
(***************************************************************************)
\* p.type.replace(/[<>[\]]/g, '')
StripBrackets(type) == SelectSeq(type, LAMBDA c : c \notin {"<", ">", "[", "]"})

\* s.split('.').pop()
RECURSIVE AfterLastDot(_)
AfterLastDot(s) ==
    IF \E i \in 1..Len(s) : s[i] = "."
    THEN AfterLastDot(SubSeq(s, (CHOOSE i \in 1..Len(s) : s[i] = "."
                                     /\ \A j \in 1..(i - 1) : s[j] # ".") + 1, Len(s)))
    ELSE s

TypeDerivedName(type) ==
    LET last == AfterLastDot(StripBrackets(type))
        typeName == IF last # <<>> THEN last ELSE ArgWord
    IN  <<ToLowerChar(typeName[1])>> \o Substring(typeName, 1, Len(typeName))

\* generateArgumentString testing fallbackToTypeName before useParameterNames
generateArgumentStringTypeFirst(parameters, options) ==
    IF options.fallbackToTypeName
    THEN Join([i \in 1..Len(parameters) |-> TypeDerivedName(parameters[i].type)],
              <<",", " ">>)
    ELSE IF options.useParameterNames
    THEN Join([i \in 1..Len(parameters) |-> parameters[i].name], <<",", " ">>)
    ELSE Join([i \in 1..Len(parameters) |-> ArgWord \o NumberToString(i)],
              <<",", " ">>)

generateArgumentString(parameters, options) ==
    IF options.useParameterNames
    THEN Join([i \in 1..Len(parameters) |-> parameters[i].name], <<",", " ">>)
    ELSE IF options.fallbackToTypeName
    THEN Join([i \in 1..Len(parameters) |-> TypeDerivedName(parameters[i].type)],
              <<",", " ">>)
    ELSE Join([i \in 1..Len(parameters) |-> ArgWord \o NumberToString(i)],
              <<",", " ">>)

(***************************************************************************)
(* ArgumentFiller.fillArguments                                            *)
(***************************************************************************)
NullResult == [kind |-> "null", arguments |-> <<>>, replaceStart |-> 0, replaceLength |-> 0]

ThrownResult == [kind |-> "throw", arguments |-> <<>>, replaceStart |-> 0, replaceLength |-> 0]

\* fillArgumentsTail asking the heuristics first and the language server's
\* list only when they give nothing
fillArgumentsTailHeuristicsFirst(text, methodCallInfo, options, lsParameters) ==
    LET heuristic == parseParametersFromContext(text, methodCallInfo, options)
        parameters == IF heuristic.kind = "list" /\ Len(heuristic.list) > 0
                      THEN heuristic ELSE lsParameters
    IN  IF parameters.kind = "null" \/ Len(parameters.list) = 0 THEN NullResult
        ELSE [kind |-> "result",
              arguments |-> generateArgumentString(parameters.list, options),
              replaceStart |-> methodCallInfo.argumentsStart,
              replaceLength |-> methodCallInfo.argumentsLength]

\* fillArguments from "if (!parameters)" on; lsParameters is what
\* getParametersFromLanguageServer gave, null when it was not called
fillArgumentsTail(text, methodCallInfo, options, lsParameters) ==
    LET parameters == IF lsParameters.kind = "null"
                      THEN parseParametersFromContext(text, methodCallInfo, options)
                      ELSE lsParameters
    IN  IF parameters.kind = "throw" THEN ThrownResult
        ELSE IF parameters.kind = "null" \/ Len(parameters.list) = 0 THEN NullResult
        ELSE [kind |-> "result",
              arguments |-> generateArgumentString(parameters.list, options),
              replaceStart |-> methodCallInfo.argumentsStart,
              replaceLength |-> methodCallInfo.argumentsLength]

\* a filler whose first result switches its useParameterNames off
optionsAfterFillArgumentsConsumed(options, result) ==
    IF result.kind = "result"
    THEN [options EXCEPT !.useParameterNames = FALSE]
    ELSE options

\* this.options of an ArgumentFiller after fillArguments returned result:
\* the constructor is the only place that assigns it
optionsAfterFillArguments(options, result) == options

\* fillArguments as a whole: hasJavaSupport says whether the language server
\* is asked, answer is what the query settles with when it is
fillArguments(text, offset, options, javaSupport, answer) ==
    LET methodCallInfo == findMethodCallContext(text, offset)
    IN  IF ~methodCallInfo.found THEN NullResult
        ELSE fillArgumentsTail(text, methodCallInfo, options,
                 IF javaSupport THEN getParametersFromLanguageServer(answer)
                 ELSE NullParams)

(***************************************************************************)
(* ArgumentCompletionProvider                                              *)
(***************************************************************************)
\* the loop of isInsideMethodCall, from index i downwards
RECURSIVE InsideLoop(_, _, _)
InsideLoop(textBeforeCursor, i, parenDepth) ==
    IF i < 0 THEN FALSE
    ELSE IF At(textBeforeCursor, i) = ")"
    THEN InsideLoop(textBeforeCursor, i - 1, parenDepth + 1)
    ELSE IF At(textBeforeCursor, i) = "("
    THEN IF parenDepth = 0
         THEN LET beforeParen == Trim(Substring(textBeforeCursor, 0, i))
              IN  beforeParen # <<>> /\ IsIdent(beforeParen[Len(beforeParen)])
         ELSE InsideLoop(textBeforeCursor, i - 1, parenDepth - 1)
    ELSE InsideLoop(textBeforeCursor, i - 1, parenDepth)

isInsideMethodCall(textBeforeCursor) ==
    InsideLoop(textBeforeCursor, Len(textBeforeCursor) - 1, 0)

getParametersFromSignatureHelp(answer) ==
    IF answer.kind = "throw" THEN NullParams
    ELSE IF answer.kind = "undefined" THEN NullParams
    ELSE IF Len(answer.signatures) = 0 THEN NullParams
    ELSE IF answer.activeSignature >= Len(answer.signatures) THEN NullParams
    ELSE LET activeSignature == answer.signatures[answer.activeSignature + 1]
         IN  IF Len(activeSignature.parameters) = 0 THEN NullParams
             ELSE ParamList([i \in 1..Len(activeSignature.parameters) |->
                     MapSignatureParameter(activeSignature,
                                           activeSignature.parameters[i], i - 1)])

\* the forward loop of calculateReplaceRange without the depth count
RECURSIVE RangeEndLoopFlat(_, _, _, _)
RangeEndLoopFlat(textAfterCursor, character, i, depth) ==
    IF i >= Len(textAfterCursor) THEN character
    ELSE IF At(textAfterCursor, i) \in {")", "]", "}", ","} THEN character + i
    ELSE RangeEndLoopFlat(textAfterCursor, character, i + 1, depth)

\* the forward loop of calculateReplaceRange: endChar
RECURSIVE RangeEndLoop(_, _, _, _)
RangeEndLoop(textAfterCursor, character, i, depth) ==
    IF i >= Len(textAfterCursor) THEN character
    ELSE LET char == At(textAfterCursor, i)
         IN  IF char \in {"(", "[", "{"}
             THEN RangeEndLoop(textAfterCursor, character, i + 1, depth + 1)
             ELSE IF char \in {")", "]", "}"}
             THEN IF depth = 0 THEN character + i
                  ELSE RangeEndLoop(textAfterCursor, character, i + 1, depth - 1)
             ELSE IF char = "," /\ depth = 0 THEN character + i
             ELSE RangeEndLoop(textAfterCursor, character, i + 1, depth)

RECURSIVE SkipSpaceForward(_, _, _)
SkipSpaceForward(lineText, startChar, character) ==
    IF startChar < character /\ IsSpace(At(lineText, startChar))
    THEN SkipSpaceForward(lineText, startChar + 1, character)
    ELSE startChar

\* the backward loop of calculateReplaceRange: startChar
RECURSIVE RangeStartLoop(_, _, _)
RangeStartLoop(lineText, character, i) ==
    IF i < 0 THEN character
    ELSE IF At(lineText, i) = "(" \/ At(lineText, i) = ","
    THEN SkipSpaceForward(lineText, i + 1, character)
    ELSE RangeStartLoop(lineText, character, i - 1)

calculateReplaceRange(lineText, character) ==
    [start |-> RangeStartLoop(lineText, character,
                              Len(Substring(lineText, 0, character)) - 1),
     end |-> RangeEndLoop(Substring(lineText, character, Len(lineText)),
                          character, 0, 0)]

\* offset of the first character of each line of the document
LineStarts(text) ==
    {0} \cup {i \in 1..Len(text) : text[i] = "\n"}

\* document.positionAt
PositionAt(text, offset) ==
    LET start == CHOOSE s \in LineStarts(text) :
                    s <= offset /\ \A r \in LineStarts(text) : r <= offset => r <= s
    IN  [line |-> Cardinality({r \in LineStarts(text) : r < start}),
         character |-> offset - start]

\* document.lineAt(line).text
LineAt(text, line) ==
    LET starts == {s \in LineStarts(text) :
                      Cardinality({r \in LineStarts(text) : r < s}) = line}
    IN  IF starts = {} THEN <<>>
        ELSE LET start == CHOOSE s \in starts : TRUE
                 ends == {e \in start..(Len(text) - 1) : text[e + 1] = "\n"}
                 end == IF ends = {} THEN Len(text)
                        ELSE CHOOSE e \in ends : \A f \in ends : e <= f
             IN  Substring(text, start, end)

NoItems == [kind |-> "null", insertText |-> <<>>, detail |-> <<>>,
            range |-> [start |-> 0, end |-> 0], labels |-> <<>>]

\* the completion items: the 'Fill all arguments' snippet with its detail
\* and range, then one item per parameter
createCompletionItems(parameters, text, position) ==
    [kind |-> "items",
     insertText |-> Join([i \in 1..Len(parameters) |->
                          <<"$", "{">> \o NumberToString(i) \o <<":">>
                          \o parameters[i].name \o <<"}">>], <<",", " ">>),
     detail |-> Join([i \in 1..Len(parameters) |-> parameters[i].name], <<",", " ">>),
     range |-> calculateReplaceRange(LineAt(text, position.line), position.character),
     labels |-> [i \in 1..Len(parameters) |-> parameters[i].name]]

\* provideCompletionItems falling back on the filler's heuristics when the
\* language server gives no parameters
provideCompletionItemsWithFallback(text, offset, options, javaSupport, answer) ==
    LET position == PositionAt(text, offset)
        lineText == LineAt(text, position.line)
        textBeforeCursor == Substring(lineText, 0, position.character)
        lsParameters == IF javaSupport THEN getParametersFromSignatureHelp(answer)
                        ELSE NullParams
        context == findMethodCallContext(text, offset)
        parameters == IF lsParameters.kind = "null" /\ context.found
                      THEN parseParametersFromContext(text, context, options)
                      ELSE lsParameters
    IN  IF ~options.enableCompletion THEN NoItems
        ELSE IF ~isInsideMethodCall(textBeforeCursor) THEN NoItems
        ELSE IF parameters.kind # "list" \/ Len(parameters.list) = 0 THEN NoItems
        ELSE createCompletionItems(parameters.list, text, position)

\* provideCompletionItems as a whole, for the cursor at offset: javaSupport
\* says whether the language server is asked, answer is what the query
\* settles with when it is
provideCompletionItems(text, offset, options, javaSupport, answer) ==
    LET position == PositionAt(text, offset)
        lineText == LineAt(text, position.line)
        textBeforeCursor == Substring(lineText, 0, position.character)
        parameters == IF javaSupport THEN getParametersFromSignatureHelp(answer)
                      ELSE NullParams
    IN  IF ~options.enableCompletion THEN NoItems
        ELSE IF ~isInsideMethodCall(textBeforeCursor) THEN NoItems
        ELSE IF parameters.kind = "null" \/ Len(parameters.list) = 0 THEN NoItems
        ELSE createCompletionItems(parameters.list, text, position)

(***************************************************************************)
(* Documents, options and signature-help answers of the model              *)
(***************************************************************************)
\* "void m(){ someMethod(); }"
DocSomeMethod ==
    <<"v","o","i","d"," ","m","(",")","{"," ","s","o","m","e","M","e","t","h","o","d",
      "(",")",";"," ","}">>

\* "foo(bar(1,2), baz())"
DocNested ==
    <<"f","o","o","(","b","a","r","(","1",",","2",")",","," ","b","a","z","(",")",")">>

\* "x.setTitle()"
DocSetTitle == <<"x",".","s","e","t","T","i","t","l","e","(",")">>

\* "a.equals( )"
DocEquals == <<"a",".","e","q","u","a","l","s","("," ",")">>

\* "m.put()"
DocPut == <<"m",".","p","u","t","(",")">>

\* "mysteryMethod()"
DocMystery == <<"m","y","s","t","e","r","y","M","e","t","h","o","d","(",")">>

\* "o.toString()"
DocToString == <<"o",".","t","o","S","t","r","i","n","g","(",")">>

\* "someMethod(1, 2)"
DocExisting == <<"s","o","m","e","M","e","t","h","o","d","(","1",","," ","2",")">>

\* "new Foo()"
DocNew == <<"n","e","w"," ","F","o","o","(",")">>

\* "int x;\nget()"
DocTwoLines == <<"i","n","t"," ","x",";","\n","g","e","t","(",")">>

Documents == {DocSomeMethod, DocSetTitle, DocEquals, DocPut, DocMystery,
              DocToString, DocExisting, DocNew, DocTwoLines}

\* AutofillOptions
OptionsSet == [enableCompletion : BOOLEAN, useParameterNames : BOOLEAN,
               fallbackToTypeName : BOOLEAN]

AllTrue == [enableCompletion |-> TRUE, useParameterNames |-> TRUE,
            fallbackToTypeName |-> TRUE]

\* "someMethod(int a, String b)"
SigLabel ==
    <<"s","o","m","e","M","e","t","h","o","d","(","i","n","t"," ","a",","," ",
      "S","t","r","i","n","g"," ","b",")">>

StringLabel(text) == [isString |-> TRUE, text |-> text, range |-> <<0, 0>>]

RangeLabel(from, to) == [isString |-> FALSE, text |-> <<>>, range |-> <<from, to>>]

SignatureHelp(signatures, activeSignature) ==
    [kind |-> "help", signatures |-> signatures, activeSignature |-> activeSignature]

\* executeSignatureHelpProvider rejects
AnswerThrow == [kind |-> "throw", signatures |-> <<>>, activeSignature |-> 0]

\* it resolves to undefined
AnswerUndefined == [kind |-> "undefined", signatures |-> <<>>, activeSignature |-> 0]

AnswerNoSignatures == SignatureHelp(<<>>, 0)

AnswerNoParameters ==
    SignatureHelp(<<[label |-> <<"m","(",")">>, parameters |-> <<>>]>>, 0)

\* the active signature index lies outside the list
AnswerBadIndex ==
    SignatureHelp(<<[label |-> SigLabel,
                     parameters |-> <<StringLabel(<<"i","n","t"," ","a">>)>>]>>, 1)

\* parameters "int a" and "String b", labels given as strings
AnswerIntAStringB ==
    SignatureHelp(<<[label |-> SigLabel,
                     parameters |-> <<StringLabel(<<"i","n","t"," ","a">>),
                                      StringLabel(<<"S","t","r","i","n","g"," ","b">>)>>]>>, 0)

\* the second of two signatures is active; labels given as offsets into
\* its label: "String b" and "int a"
AnswerRanges ==
    SignatureHelp(<<[label |-> <<"m","(",")">>, parameters |-> <<>>],
                    [label |-> SigLabel,
                     parameters |-> <<RangeLabel(18, 26), RangeLabel(11, 16)>>]>>, 1)

\* labels "java.util.List<String> items", "value" and "  "
AnswerOddLabels ==
    SignatureHelp(<<[label |-> <<>>,
                     parameters |-> <<
        StringLabel(<<"j","a","v","a",".","u","t","i","l",".","L","i","s","t","<",
                      "S","t","r","i","n","g",">"," ","i","t","e","m","s">>),
        StringLabel(<<"v","a","l","u","e">>),
        StringLabel(<<" ", " ">>)>>]>>, 0)

FailingAnswers == {AnswerThrow, AnswerUndefined, AnswerNoSignatures,
                   AnswerNoParameters}

\* what the signature help query of a running operation may settle with
Answers == FailingAnswers \cup {AnswerIntAStringB, AnswerOddLabels}

\* the answers getParametersFromLanguageServer is applied to directly
AllAnswers == Answers \cup {AnswerBadIndex, AnswerRanges}

NoAnswer == [kind |-> "none", signatures |-> <<>>, activeSignature |-> 0]

(***************************************************************************)
(* The fill command, the completion provider and configuration changes     *)
(***************************************************************************)
\* what a run of the fill command remembers of the run before it
NoPrevious == [kind |-> "none", answer |-> NoAnswer]

\* runs counts the runs of the command that returned before this one
IdleFill ==
    [options |-> AllTrue, text |-> <<>>, offset |-> 0, context |-> NoContext,
     answer |-> NoAnswer, result |-> NullResult, message |-> "none",
     runs |-> 0, previous |-> NoPrevious]

IdleComp ==
    [enabled |-> FALSE, position |-> [line |-> 0, character |-> 0],
     cancelled |-> FALSE, answer |-> NoAnswer, result |-> NoItems]

NoInput == [fn |-> "none"]

NoOutput == [done |-> FALSE]

\* getAutofillOptions: the stored configuration as an AutofillOptions value
getAutofillOptions == config

Init ==
    /\ doc \in Documents
    /\ cursor \in 0..Len(doc)
    /\ languageId \in {"none", "java", "plaintext"}
    /\ hasJavaSupport \in BOOLEAN
    /\ config \in OptionsSet
    /\ providerOptions = getAutofillOptions
    /\ fpc = "idle"
    /\ fill = IdleFill
    /\ cpc = "idle"
    /\ comp = IdleComp
    /\ pin = NoInput
    /\ pout = NoOutput

\* onDidChangeConfiguration for a change that affects 'tlcsdm.autofill'
ConfigChange ==
    /\ \E o \in OptionsSet \ {config} :
          /\ config' = o
          /\ providerOptions' = o
    /\ UNCHANGED <<doc, cursor, languageId, hasJavaSupport, fpc, fill, cpc, comp,
                   pin, pout>>

\* the text after an edit that inserts the replacement at start and removes
\* nothing
ApplyReplaceInsert(text, start, length, replacement) ==
    Substring(text, 0, start) \o replacement \o Substring(text, start, Len(text))

\* the text after WorkspaceEdit.replace of [start, start + length) by replacement
ApplyReplace(text, start, length, replacement) ==
    Substring(text, 0, start) \o replacement
        \o Substring(text, start + length, Len(text))

\* where the editor leaves a cursor at offset c after that replacement
CursorAfterReplace(c, start, length, replacement) ==
    IF c < start THEN c
    ELSE IF c > start + length THEN c - length + Len(replacement)
    ELSE start + Len(replacement)

\* the filler reading the stored configuration each time it needs an option
FillerOptionsLive(locals) == config

\* this.options of the ArgumentFiller the command constructed
FillerOptions(locals) == locals.options

\* the fill command from the return of filler.fillArguments on: the
\* messages, and the edit when there is a result.  The formatter run by
\* formatDocumentWithRedHatJava belongs to the host: its errors are
\* swallowed and the text is taken as the edit left it.
FillFinish(locals, result) ==
    /\ fpc' = "done"
    /\ IF result.kind = "throw"
       THEN /\ fill' = [locals EXCEPT !.result = result, !.message = "error"]
            /\ UNCHANGED <<doc, cursor>>
       ELSE IF result.kind = "null"
       THEN /\ fill' = [locals EXCEPT !.result = result, !.message = "info: no method call"]
            /\ UNCHANGED <<doc, cursor>>
       ELSE IF Len(result.arguments) = 0
       THEN /\ fill' = [locals EXCEPT !.result = result, !.message = "info: no parameters"]
            /\ UNCHANGED <<doc, cursor>>
       ELSE /\ fill' = [locals EXCEPT !.result = result, !.message = "info: filled"]
            /\ doc' = ApplyReplace(doc, result.replaceStart, result.replaceLength,
                                   result.arguments)
            /\ cursor' = CursorAfterReplace(cursor, result.replaceStart,
                                            result.replaceLength, result.arguments)

MaxFills == 2

\* the run before filled a call with empty parentheses, and this run starts
\* with the same options and the cursor between the same parentheses
PreviousRun(before, options, methodCallInfo) ==
    IF /\ before.message = "info: filled"
       /\ before.context.existingArguments = <<>>
       /\ before.options = options
       /\ methodCallInfo.found
       /\ methodCallInfo.openParenOffset = before.context.openParenOffset
    THEN [kind |-> "repeat", answer |-> before.answer]
    ELSE NoPrevious

\* the command 'tlcsdm.autofill.fillArguments' up to its first suspension
FillStart ==
    /\ fpc = "idle"
    /\ IF languageId = "none"
       THEN /\ fpc' = "done"
            /\ fill' = [IdleFill EXCEPT !.message = "warning: no editor",
                                        !.runs = fill.runs]
            /\ UNCHANGED <<doc, cursor>>
       ELSE IF languageId # "java"
       THEN /\ fpc' = "done"
            /\ fill' = [IdleFill EXCEPT !.message = "warning: not java",
                                        !.runs = fill.runs]
            /\ UNCHANGED <<doc, cursor>>
       ELSE LET options == getAutofillOptions
                methodCallInfo == findMethodCallContext(doc, cursor)
                locals == [IdleFill EXCEPT !.options = options, !.text = doc,
                                           !.offset = cursor,
                                           !.context = methodCallInfo,
                                           !.runs = fill.runs,
                                           !.previous = PreviousRun(fill, options,
                                                                    methodCallInfo)]
            IN  IF ~methodCallInfo.found
                THEN FillFinish(locals, NullResult)
                ELSE IF hasJavaSupport
                THEN /\ fpc' = "awaiting"
                     /\ fill' = locals
                     /\ UNCHANGED <<doc, cursor>>
                ELSE FillFinish(locals,
                        fillArgumentsTail(doc, methodCallInfo, FillerOptions(locals),
                                          NullParams))
    /\ UNCHANGED <<languageId, hasJavaSupport, config, providerOptions, cpc, comp,
                   pin, pout>>

\* the signature help query settles and the fill command runs to its end
FillResume ==
    /\ fpc = "awaiting"
    /\ \E answer \in Answers :
          FillFinish([fill EXCEPT !.answer = answer],
                     fillArgumentsTail(fill.text, fill.context, FillerOptions(fill),
                                       getParametersFromLanguageServer(answer)))
    /\ UNCHANGED <<languageId, hasJavaSupport, config, providerOptions, cpc, comp,
                   pin, pout>>

\* the command has returned and may be run again
FillReturn ==
    /\ fpc = "done"
    /\ fill.runs + 1 < MaxFills
    /\ fpc' = "idle"
    /\ fill' = [fill EXCEPT !.runs = @ + 1]
    /\ UNCHANGED <<doc, cursor, languageId, hasJavaSupport, config, providerOptions,
                   cpc, comp, pin, pout>>

\* provideCompletionItems up to its suspension on the signature help query
CompletionStart ==
    /\ cpc = "idle"
    /\ languageId = "java"
    /\ LET position == PositionAt(doc, cursor)
           lineText == LineAt(doc, position.line)
           textBeforeCursor == Substring(lineText, 0, position.character)
           locals == [IdleComp EXCEPT !.enabled = providerOptions.enableCompletion,
                                      !.position = position]
       IN  IF ~locals.enabled
           THEN cpc' = "done" /\ comp' = locals
           ELSE IF ~isInsideMethodCall(textBeforeCursor)
           THEN cpc' = "done" /\ comp' = locals
           ELSE IF ~hasJavaSupport
           THEN cpc' = "done" /\ comp' = locals
           ELSE cpc' = "awaiting" /\ comp' = locals
    /\ UNCHANGED <<doc, cursor, languageId, hasJavaSupport, config, providerOptions,
                   fpc, fill, pin, pout>>

\* the host cancels the pending completion request (the CancellationToken)
CompletionCancel ==
    /\ cpc = "awaiting"
    /\ ~comp.cancelled
    /\ comp' = [comp EXCEPT !.cancelled = TRUE]
    /\ UNCHANGED <<doc, cursor, languageId, hasJavaSupport, config, providerOptions,
                   fpc, fill, cpc, pin, pout>>

\* the signature help query settles and provideCompletionItems returns
CompletionResume ==
    /\ cpc = "awaiting"
    /\ \E answer \in Answers :
          LET parameters == getParametersFromSignatureHelp(answer)
          IN  comp' = [comp EXCEPT
                  !.answer = answer,
                  !.result = IF parameters.kind = "null" \/ Len(parameters.list) = 0
                             THEN NoItems
                             ELSE createCompletionItems(parameters.list, doc,
                                                        comp.position)]
    /\ cpc' = "done"
    /\ UNCHANGED <<doc, cursor, languageId, hasJavaSupport, config, providerOptions,
                   fpc, fill, pin, pout>>

Next ==
    \/ ConfigChange
    \/ FillStart
    \/ FillResume
    \/ CompletionStart
    \/ CompletionCancel
    \/ CompletionResume

Spec == Init /\ [][Next]_vars

\* the fill command run up to MaxFills times in a row, the configuration
\* changing at any moment
NextFill ==
    \/ ConfigChange
    \/ FillStart
    \/ FillResume
    \/ FillReturn

SpecFill == Init /\ [][NextFill]_vars

(***************************************************************************)
(* ArgumentFiller's and the provider's functions applied to bounded inputs *)
(***************************************************************************)
MaxTextLen == 5

MaxParams == 2

\* every sequence over alphabet of length at most n
RECURSIVE SeqsUpTo(_, _)
SeqsUpTo(alphabet, n) ==
    IF n = 0 THEN {<<>>}
    ELSE LET shorter == SeqsUpTo(alphabet, n - 1)
         IN  shorter \cup {Append(t, c) : t \in shorter, c \in alphabet}

LocatorAlphabet == {"(", ")", "f", " "}

LocatorTexts == SeqsUpTo(LocatorAlphabet, MaxTextLen) \cup Documents \cup {DocNested}

\* name and type of the parameters the synthesizer is applied to
ParameterPool == {
    [name |-> <<"a">>, type |-> <<"i","n","t">>],
    [name |-> <<"b">>, type |-> <<"S","t","r","i","n","g">>],
    [name |-> <<"i","t","e","m","s">>,
     type |-> <<"j","a","v","a",".","u","t","i","l",".","L","i","s","t","<","U","r","l",">">>],
    [name |-> <<"x","s">>, type |-> <<"[","]">>],
    [name |-> <<"T","a","g">>, type |-> <<"o","r","g",".">>] }

ParameterLists ==
    {[i \in 1..Len(l) |-> [name |-> l[i].name, type |-> l[i].type, index |-> i - 1]] :
        l \in SeqsUpTo(ParameterPool, MaxParams)}

SetterNames == {
    <<"s","e","t","T","i","t","l","e">>,
    <<"s","e","t","X">>,
    <<"s","e","t","_","i","d">>,
    <<"s","e","t","t","l","e">>,
    <<"s","e","t","U","R","L">>,
    <<"s","e","t","2">> }

OtherNames == {
    <<"m","y","s","t","e","r","y","M","e","t","h","o","d">>,
    <<"s","e","t">>,
    <<"S","e","t","X">>,
    <<"E","q","u","a","l","s">>,
    <<"e","q","u","a","l">>,
    <<"g","e","t","K","e","y">>,
    <<"f">> }

MethodNames ==
    {knownPatterns[i].key : i \in 1..Len(knownPatterns)}
        \cup SetterNames \cup OtherNames \cup ObjectPrototypeKeys

\* "<name>()" for every method name
CallTexts == {n \o <<"(", ")">> : n \in MethodNames}

MaxArgsLen == 4

ArgumentAlphabet == {",", "(", "[", "{", ")", "]", "}", "\"", "'", "a", " "}

\* "a, [1,2], {x:1,y:2}"
ArgsNested ==
    <<"a",","," ","[","1",",","2","]",","," ","{","x",":","1",",","y",":","2","}">>

\* "f(\"a,b\"), 'c,\"d', e"
ArgsLiterals ==
    <<"f","(","\"","a",",","b","\"",")",","," ","'","c",",","\"","d","'",","," ","e">>

\* the strings countArguments is applied to
ArgumentStrings ==
    SeqsUpTo(ArgumentAlphabet, MaxArgsLen) \cup {ArgsNested, ArgsLiterals, <<" ", "\t", " ">>}

MaxLineLen == 4

LineAlphabet == {"(", ")", ",", " ", "a", "[", "}", "\""}

\* "f(x, g(1,2), y)"
LineNested == <<"f","(","x",","," ","g","(","1",",","2",")",","," ","y",")">>

\* "f( \t\"a,b\" , {1,2] )"
LineLiteral ==
    <<"f","("," ","\t","\"","a",",","b","\""," ",","," ","{","1",",","2","]"," ",")">>

\* the lines calculateReplaceRange is applied to
LineTexts == SeqsUpTo(LineAlphabet, MaxLineLen) \cup {LineNested, LineLiteral}

\* the language server is absent, or present and answering
AdapterCases ==
    {[javaSupport |-> FALSE, answer |-> NoAnswer]}
        \cup {[javaSupport |-> TRUE, answer |-> a] : a \in AllAnswers}

\* the input of one direct application
PureInput ==
    \/ \E t \in LocatorTexts : \E o \in 0..Len(t) :
          pin = [fn |-> "findMethodCallContext", text |-> t, offset |-> o]
    \/ \E t \in CallTexts \cup Documents \cup {DocNested} : \E o \in 0..Len(t) :
       \E op \in OptionsSet : \E a \in AdapterCases :
          pin = [fn |-> "fillArguments", text |-> t, offset |-> o, options |-> op,
                 javaSupport |-> a.javaSupport, answer |-> a.answer]
    \/ \E l \in ParameterLists \ {<<>>} : \E op \in OptionsSet :
          pin = [fn |-> "generateArgumentString", parameters |-> l, options |-> op]
    \/ \E n \in MethodNames : \E c \in BOOLEAN :
          pin = [fn |-> "generatePlaceholderParameters", methodName |-> n,
                 isConstructor |-> c]
    \/ \E t \in CallTexts \cup Documents : \E o \in 0..Len(t) :
       \E op \in OptionsSet : \E a \in AdapterCases :
          pin = [fn |-> "provideCompletionItems", text |-> t, offset |-> o,
                 options |-> op, javaSupport |-> a.javaSupport, answer |-> a.answer]
    \/ \E l \in LineTexts : \E c \in 0..Len(l) :
          pin = [fn |-> "calculateReplaceRange", lineText |-> l, character |-> c]
    \/ \E a \in ArgumentStrings :
          pin = [fn |-> "countArguments", argsString |-> a]
    \/ \E a \in AllAnswers :
          pin = [fn |-> "getParametersFromLanguageServer", answer |-> a]

InitPure ==
    /\ doc = <<>>
    /\ cursor = 0
    /\ languageId = "none"
    /\ hasJavaSupport = FALSE
    /\ config = AllTrue
    /\ providerOptions = AllTrue
    /\ fpc = "idle"
    /\ fill = IdleFill
    /\ cpc = "idle"
    /\ comp = IdleComp
    /\ PureInput
    /\ pout = NoOutput

Output(value) == [done |-> TRUE, value |-> value]

ApplyFindMethodCallContext ==
    /\ pin.fn = "findMethodCallContext"
    /\ ~pout.done
    /\ pout' = Output(findMethodCallContext(pin.text, pin.offset))
    /\ UNCHANGED <<machineVars, pin>>

ApplyGenerateArgumentString ==
    /\ pin.fn = "generateArgumentString"
    /\ ~pout.done
    /\ pout' = Output(generateArgumentString(pin.parameters, pin.options))
    /\ UNCHANGED <<machineVars, pin>>

ApplyGeneratePlaceholderParameters ==
    /\ pin.fn = "generatePlaceholderParameters"
    /\ ~pout.done
    /\ pout' = Output(generatePlaceholderParameters(pin.methodName, pin.isConstructor))
    /\ UNCHANGED <<machineVars, pin>>

ApplyGetParametersFromLanguageServer ==
    /\ pin.fn = "getParametersFromLanguageServer"
    /\ ~pout.done
    /\ pout' = Output(getParametersFromLanguageServer(pin.answer))
    /\ UNCHANGED <<machineVars, pin>>

ApplyFillArguments ==
    /\ pin.fn = "fillArguments"
    /\ ~pout.done
    /\ pout' = Output(fillArguments(pin.text, pin.offset, pin.options,
                                    pin.javaSupport, pin.answer))
    /\ UNCHANGED <<machineVars, pin>>

\* a second call of fillArguments on the same ArgumentFiller, with the same
\* document, position and signature help answer
ApplyFillArgumentsAgain ==
    /\ pin.fn = "fillArguments"
    /\ pout.done
    /\ "first" \notin DOMAIN pout
    /\ pout' = [done |-> TRUE,
                first |-> pout.value,
                value |-> fillArguments(pin.text, pin.offset,
                             optionsAfterFillArguments(pin.options, pout.value),
                             pin.javaSupport, pin.answer)]
    /\ UNCHANGED <<machineVars, pin>>

ApplyCountArguments ==
    /\ pin.fn = "countArguments"
    /\ ~pout.done
    /\ pout' = Output(countArguments(pin.argsString))
    /\ UNCHANGED <<machineVars, pin>>

ApplyProvideCompletionItems ==
    /\ pin.fn = "provideCompletionItems"
    /\ ~pout.done
    /\ pout' = Output(provideCompletionItems(pin.text, pin.offset, pin.options,
                                             pin.javaSupport, pin.answer))
    /\ UNCHANGED <<machineVars, pin>>

ApplyCalculateReplaceRange ==
    /\ pin.fn = "calculateReplaceRange"
    /\ ~pout.done
    /\ pout' = Output(calculateReplaceRange(pin.lineText, pin.character))
    /\ UNCHANGED <<machineVars, pin>>

NextPure ==
    \/ ApplyFindMethodCallContext
    \/ ApplyFillArguments
    \/ ApplyFillArgumentsAgain
    \/ ApplyGenerateArgumentString
    \/ ApplyGeneratePlaceholderParameters
    \/ ApplyProvideCompletionItems
    \/ ApplyCalculateReplaceRange
    \/ ApplyCountArguments
    \/ ApplyGetParametersFromLanguageServer

SpecPure == InitPure /\ [][NextPure]_vars

(***************************************************************************)
(* Properties                                                              *)
(***************************************************************************)
\* the fill command ran fillArguments on a located call site and finished
FillDone == fpc = "done" /\ fill.context.found

\* the fill command finished without usable data from the language server:
\* it was not asked, or its query failed or answered nothing usable
NoAdapterData == fill.answer \in FailingAnswers \cup {NoAnswer}

\* C1: when the located call site has non-blank text between its
\* parentheses, fillArguments returns null, whatever the language server
\* answers.
C1_NoOverwrite ==
    (FillDone /\ Trim(Substring(fill.text, fill.context.openParenOffset + 1,
                                fill.context.closeParenOffset)) # <<>>)
        => fill.result.kind = "null"

\* the per-parameter rule the options select
ClaimRule(options) ==
    IF options.useParameterNames THEN "name"
    ELSE IF options.fallbackToTypeName THEN "type"
    ELSE "position"

\* the identifier derived from a type: < > [ ] stripped, the part after the
\* last '.', "arg" when that part is empty, first character lower-cased
ClaimTypeIdentifier(type) ==
    LET stripped == SelectSeq(type, LAMBDA c : c \notin {"<", ">", "[", "]"})
        dots == {i \in 1..Len(stripped) : stripped[i] = "."}
        lastDot == IF dots = {} THEN 0
                   ELSE CHOOSE i \in dots : \A j \in dots : j <= i
        part == SubSeq(stripped, lastDot + 1, Len(stripped))
        word == IF part = <<>> THEN <<"a","r","g">> ELSE part
    IN  [i \in 1..Len(word) |-> IF i = 1 THEN ToLowerChar(word[i]) ELSE word[i]]

\* the text of the i-th (1-based) parameter under a rule
ClaimParameterText(rule, p, i) ==
    IF rule = "name" THEN p.name
    ELSE IF rule = "type" THEN ClaimTypeIdentifier(p.type)
    ELSE <<"a","r","g">> \o NumberToString(i)

\* the texts of a non-empty list, with ", " between consecutive ones
RECURSIVE ClaimJoined(_)
ClaimJoined(texts) ==
    IF Len(texts) = 1 THEN texts[1]
    ELSE ClaimJoined(SubSeq(texts, 1, Len(texts) - 1)) \o <<",", " ">> \o texts[Len(texts)]

ClaimArgumentText(parameters, options) ==
    ClaimJoined([i \in 1..Len(parameters) |->
                    ClaimParameterText(ClaimRule(options), parameters[i], i)])

\* the parameter list each non-empty answer of the language server declares
DeclaredParameters(answer) ==
    IF answer = AnswerIntAStringB
    THEN <<[name |-> <<"a">>, type |-> <<"i","n","t">>, index |-> 0],
           [name |-> <<"b">>, type |-> <<"S","t","r","i","n","g">>, index |-> 1]>>
    ELSE <<[name |-> <<"i","t","e","m","s">>,
            type |-> <<"j","a","v","a",".","u","t","i","l",".","L","i","s","t","<",
                       "S","t","r","i","n","g",">">>, index |-> 0],
           [name |-> <<"v","a","l","u","e">>, type |-> ObjectType, index |-> 1],
           [name |-> <<"a","r","g","3">>, type |-> ObjectType, index |-> 2]>>

\* the offset between the parentheses of someMethod() in DocSomeMethod
BetweenParens == Len(DocSomeMethod) - 4

\* C2: when the language server answers with a non-empty parameter list for
\* a located call site, the fill result is the text of exactly that list in
\* declaration order over the argument range, whatever the callee name; for
\* "void m(){ someMethod(); }", parameters int a and String b and all options
\* true it is "a, b" with replaceLength 0 at the offset between the parens.
C2_AdapterPriority ==
    (FillDone /\ fill.answer \in {AnswerIntAStringB, AnswerOddLabels})
        => /\ fill.result.kind = "result"
           /\ fill.result.arguments =
                  ClaimArgumentText(DeclaredParameters(fill.answer), fill.options)
           /\ fill.result.replaceStart = fill.context.openParenOffset + 1
           /\ (fill.text = DocSomeMethod /\ fill.offset = BetweenParens
               /\ fill.answer = AnswerIntAStringB /\ fill.options = AllTrue)
                  => /\ fill.result.arguments = <<"a", ",", " ", "b">>
                     /\ fill.result.replaceLength = 0
                     /\ fill.result.replaceStart = BetweenParens

\* C2 witness: the fill of someMethod() from the language server's list,
\* applied to the document
C2_Witness ==
    /\ FillDone
    /\ fill.text = DocSomeMethod /\ fill.offset = BetweenParens
    /\ fill.answer = AnswerIntAStringB /\ fill.options = AllTrue
    /\ fill.result.arguments = <<"a", ",", " ", "b">>
    /\ fill.message = "info: filled"

\* C3: when the signature help query throws, or answers nothing, no
\* signature or a signature without parameters, fillArguments throws nothing
\* and returns what it returns without the language server installed.
C3_FailureIsAbsence ==
    (FillDone /\ fill.answer \in FailingAnswers)
        => /\ fill.result.kind # "throw"
           /\ fill.result = fillArguments(fill.text, fill.offset, fill.options,
                                          FALSE, NoAnswer)

\* C4: a completion request cancelled while it waits for the signature help
\* query yields no suggestions.
C4_CancellationRespected ==
    (cpc = "done" /\ comp.cancelled) => comp.result.kind = "null"

\* a fill command in flight completes from the options read when it started
FillUsesSnapshot ==
    (FillDone /\ fill.answer # NoAnswer)
        => fill.result = fillArguments(fill.text, fill.offset, fill.options,
                                       TRUE, fill.answer)

\* a completion request that was enabled when it started completes from the
\* language server's answer alone
CompletionUsesSnapshot ==
    (cpc = "done" /\ comp.answer # NoAnswer)
        => /\ comp.enabled
           /\ comp.result.kind = "items"
                 <=> comp.answer \in {AnswerIntAStringB, AnswerOddLabels}

\* the options of an operation are those in force at its start and stay so
SnapshotTaken ==
    /\ (fpc = "idle" /\ fpc' # "idle" /\ languageId = "java") => fill'.options = config
    /\ fpc # "idle" => fill'.options = fill.options
    /\ (cpc = "idle" /\ cpc' # "idle") => comp'.enabled = providerOptions.enableCompletion
    /\ cpc # "idle" => comp'.enabled = comp.enabled

\* C5: an operation suspended on the signature help query completes with a
\* result determined by the options in force when it started, whatever
\* configuration changes happen meanwhile.
C5_OptionsSnapshot ==
    /\ [](FillUsesSnapshot /\ CompletionUsesSnapshot)
    /\ [][SnapshotTaken]_vars

\* C5 witness: the configuration was changed while a fill command waits on
\* the language server, to options that would give another text
C5_Witness ==
    /\ fpc = "awaiting"
    /\ cpc = "awaiting"
    /\ fill.options.useParameterNames /\ ~config.useParameterNames
    /\ comp.enabled /\ ~providerOptions.enableCompletion

\* a function was applied directly and returned
Applied(fn) == pin.fn = fn /\ pout.done

\* C6: generateArgumentString returns the per-parameter texts joined by
\* ", ", the rule chosen once from the options: the name if
\* useParameterNames, else the type-derived identifier if
\* fallbackToTypeName, else arg<i+1>.
C6_NamingPrecedence ==
    Applied("generateArgumentString")
        => pout.value = ClaimArgumentText(pin.parameters, pin.options)

\* C6 witness: both flags true, two parameters whose type-derived text
\* differs from their names, and the names are what is returned
C6_Witness ==
    /\ Applied("generateArgumentString")
    /\ pin.options.useParameterNames /\ pin.options.fallbackToTypeName
    /\ Len(pin.parameters) = 2
    /\ pin.parameters[1].type = <<"o","r","g",".">>
    /\ pout.value = <<"T","a","g",",", " ","x","s">>

\* "set" followed by at least one character
IsSetterName(name) == Len(name) > 3 /\ SubSeq(name, 1, 3) = <<"s","e","t">>

\* the parameter names of the 17 entries of the fixed pattern table
ClaimTable(name) ==
    CASE name = <<"e","q","u","a","l","s">> -> <<<<"o","b","j">>>>
      [] name = <<"c","o","m","p","a","r","e","T","o">> -> <<<<"o","t","h","e","r">>>>
      [] name \in {<<"i","n","d","e","x","O","f">>, <<"c","o","n","t","a","i","n","s">>,
                   <<"a","d","d">>, <<"r","e","m","o","v","e">>}
            -> <<<<"e","l","e","m","e","n","t">>>>
      [] name = <<"p","u","t">> -> <<<<"k","e","y">>, <<"v","a","l","u","e">>>>
      [] name = <<"g","e","t">> -> <<<<"k","e","y">>>>
      [] name = <<"s","u","b","s","t","r","i","n","g">>
            -> <<<<"b","e","g","i","n","I","n","d","e","x">>,
                 <<"e","n","d","I","n","d","e","x">>>>
      [] name = <<"r","e","p","l","a","c","e">>
            -> <<<<"o","l","d","V","a","l","u","e">>, <<"n","e","w","V","a","l","u","e">>>>
      [] name = <<"s","p","l","i","t">> -> <<<<"r","e","g","e","x">>>>
      [] name \in {<<"f","o","r","m","a","t">>, <<"p","r","i","n","t","f">>}
            -> <<<<"f","o","r","m","a","t">>, <<"a","r","g","s">>>>
      [] name \in {<<"p","r","i","n","t","l","n">>, <<"p","r","i","n","t">>}
            -> <<<<"m","e","s","s","a","g","e">>>>
      [] name = <<"a","p","p","e","n","d">> -> <<<<"s","t","r">>>>
      [] name = <<"i","n","s","e","r","t">> -> <<<<"o","f","f","s","e","t">>, <<"s","t","r">>>>
      [] OTHER -> <<>>

IsTableKey(name) == ClaimTable(name) # <<>>

\* C7: without language server data, with empty parentheses and
\* fallbackToTypeName true, a callee that is neither a setter name nor a key
\* of the pattern table gives no fill result and no exception: the command
\* shows the informational message.
C7_NoMatchNoResult ==
    (/\ FillDone /\ NoAdapterData
     /\ fill.context.existingArguments = <<>>
     /\ fill.options.fallbackToTypeName
     /\ ~IsSetterName(fill.context.methodName)
     /\ ~IsTableKey(fill.context.methodName))
        => /\ fill.result.kind = "null"
           /\ fill.message = "info: no method call"

\* the names the heuristics give a callee: the de-capitalized remainder of a
\* setter name, else the table's list
ClaimHeuristicNames(name) ==
    IF IsSetterName(name)
    THEN <<[i \in 1..(Len(name) - 3) |->
               IF i = 1 THEN ToLowerChar(name[4]) ELSE name[i + 3]]>>
    ELSE ClaimTable(name)

\* text is "<name>()", possibly after "<receiver>.", and offset lies between
\* the parentheses
EmptyCallOf(text, offset, name) ==
    /\ offset = Len(text) - 1
    /\ Len(text) >= Len(name) + 2
    /\ SubSeq(text, Len(text) - Len(name) - 1, Len(text)) = name \o <<"(", ")">>
    /\ Len(text) > Len(name) + 2 => text[Len(text) - Len(name) - 2] = "."

\* C8: a setter name resolves to one parameter (index 0, type Object) named
\* by the de-capitalized remainder; any other key of the pattern table
\* resolves to that key's names in table order, indices 0..n-1, type Object;
\* with all options true and no language server data the fill text of such
\* a call with empty parentheses is those names joined by ", ".
C8_HeuristicResolution ==
    /\ (Applied("generatePlaceholderParameters")
        /\ (IsSetterName(pin.methodName) \/ IsTableKey(pin.methodName)))
          => LET names == ClaimHeuristicNames(pin.methodName)
             IN  /\ pout.value.kind = "list"
                 /\ pout.value.list =
                        [i \in 1..Len(names) |->
                            [name |-> names[i], type |-> ObjectType, index |-> i - 1]]
                 /\ IsSetterName(pin.methodName) => Len(pout.value.list) = 1
    /\ \A n \in MethodNames :
          (/\ Applied("fillArguments")
           /\ IsSetterName(n) \/ IsTableKey(n)
           /\ EmptyCallOf(pin.text, pin.offset, n)
           /\ pin.options = AllTrue
           /\ ~pin.javaSupport \/ pin.answer \in FailingAnswers \cup {AnswerBadIndex})
             => /\ pout.value.kind = "result"
                /\ pout.value.arguments = ClaimJoined(ClaimHeuristicNames(n))

\* C8 witness: x.setTitle() without the language server fills "title"
C8_Witness ==
    /\ Applied("fillArguments")
    /\ pin.text = DocSetTitle /\ pin.offset = Len(DocSetTitle) - 1
    /\ ~pin.javaSupport /\ pin.options = AllTrue
    /\ pout.value.kind = "result"
    /\ pout.value.arguments = <<"t","i","t","l","e">>

\* C9: when the language server gives no usable list and fallbackToTypeName
\* is false, fillArguments returns null, whatever the callee and
\* useParameterNames.
C9_HeuristicsGated ==
    (/\ Applied("fillArguments")
     /\ ~pin.options.fallbackToTypeName
     /\ ~pin.javaSupport \/ pin.answer \in FailingAnswers \cup {AnswerBadIndex})
        => pout.value.kind = "null"

\* C9 witness: a.equals( ) with the cursor in the parentheses, the language
\* server's query failing, fallbackToTypeName false
C9_Witness ==
    /\ Applied("fillArguments")
    /\ pin.text = DocEquals /\ pin.offset = Len(DocEquals) - 1
    /\ pin.javaSupport /\ pin.answer = AnswerThrow
    /\ ~pin.options.fallbackToTypeName /\ pin.options.useParameterNames
    /\ pout.value.kind = "null"

\* the number of occurrences of ch at the 0-based offsets from..to of text
Occurrences(text, ch, from, to) == Cardinality({i \in from..to : At(text, i) = ch})

\* the '(' at offset p is not balanced by a ')' between it and offset
UnbalancedBefore(text, p, offset) ==
    /\ At(text, p) = "("
    /\ \A q \in (p + 1)..(offset - 1) :
          Occurrences(text, ")", p + 1, q) <= Occurrences(text, "(", p + 1, q)

\* c is the ')' that balances the '(' at p
Balances(text, p, c) ==
    /\ At(text, c) = ")"
    /\ Occurrences(text, ")", p + 1, c) = Occurrences(text, "(", p + 1, c) + 1
    /\ \A d \in (p + 1)..(c - 1) :
          At(text, d) = ")" =>
              Occurrences(text, ")", p + 1, d) # Occurrences(text, "(", p + 1, d) + 1

\* an identifier character precedes offset p, after optional white space
CalleeBefore(text, p) ==
    \E j \in 0..(p - 1) :
        /\ IsIdent(At(text, j))
        /\ \A k \in (j + 1)..(p - 1) : IsSpace(At(text, k))

\* the offset between the parentheses of baz() in DocNested
InsideBaz == Len(DocNested) - 2

\* C10: the open paren of a located context is the nearest '(' before the
\* offset that no ')' between it and the offset balances, and its close
\* paren is the ')' balancing it; in "foo(bar(1,2), baz())" with the cursor
\* inside baz() the callee is baz; a cursor right before the ')' of empty
\* parentheses of a call is inside that call.
C10_InnermostCallSite ==
    Applied("findMethodCallContext") =>
        LET text == pin.text
            offset == pin.offset
            context == pout.value
        IN  /\ context.found =>
                  /\ context.openParenOffset < offset
                  /\ UnbalancedBefore(text, context.openParenOffset, offset)
                  /\ \A p \in (context.openParenOffset + 1)..(offset - 1) :
                        ~UnbalancedBefore(text, p, offset)
                  /\ Balances(text, context.openParenOffset, context.closeParenOffset)
            /\ (text = DocNested /\ offset = InsideBaz) =>
                  /\ context.found
                  /\ context.methodName = <<"b","a","z">>
            /\ (/\ offset > 0
                /\ At(text, offset - 1) = "(" /\ At(text, offset) = ")"
                /\ CalleeBefore(text, offset - 1)) =>
                  /\ context.found
                  /\ context.openParenOffset = offset - 1
                  /\ context.closeParenOffset = offset

\* C10 witness: the cursor inside baz() of the nested call locates baz
C10_Witness ==
    /\ Applied("findMethodCallContext")
    /\ pin.text = DocNested /\ pin.offset = InsideBaz
    /\ pout.value.found
    /\ pout.value.methodName = <<"b","a","z">>
    /\ pout.value.openParenOffset = 17 /\ pout.value.closeParenOffset = 18

\* the range start..start+length is the text between the '(' at open and
\* the ')' at close, and lies within text
RangeBetweenParens(text, open, close, start, length) ==
    /\ open < close
    /\ start = open + 1
    /\ length = close - open - 1
    /\ length >= 0
    /\ At(text, start - 1) = "("
    /\ At(text, start + length) = ")"
    /\ 0 <= start /\ start + length <= Len(text)

\* C11: every located context has openOffset < closeOffset, argumentsStart =
\* openOffset + 1 and argumentsLength = closeOffset - openOffset - 1 >= 0,
\* with '(' right before the range and ')' right after it; every fill
\* result carries exactly that range of the context located for its text
\* and offset, so the range lies within the text.
C11_RangeInvariant ==
    /\ (Applied("findMethodCallContext") /\ pout.value.found)
          => RangeBetweenParens(pin.text, pout.value.openParenOffset,
                                pout.value.closeParenOffset,
                                pout.value.argumentsStart, pout.value.argumentsLength)
    /\ (Applied("fillArguments") /\ pout.value.kind = "result")
          => /\ \E open \in 0..Len(pin.text) : \E close \in 0..Len(pin.text) :
                   RangeBetweenParens(pin.text, open, close,
                                      pout.value.replaceStart, pout.value.replaceLength)
             /\ LET context == findMethodCallContext(pin.text, pin.offset)
                IN  /\ context.found
                    /\ pout.value.replaceStart = context.argumentsStart
                    /\ pout.value.replaceLength = context.argumentsLength

\* C11 witness: a fill result over the non-empty range of "someMethod(1, 2)"
C11_Witness ==
    /\ Applied("fillArguments")
    /\ pin.text = DocExisting
    /\ pout.value.kind = "result"
    /\ pout.value.replaceStart = Len(DocExisting) - 5
    /\ pout.value.replaceLength = 4
    /\ SubSeq(pin.text, pout.value.replaceStart + 1,
              pout.value.replaceStart + pout.value.replaceLength)
           = <<"1", ",", " ", "2">>

\* the 1-based position of the quote that opened the string literal still
\* open after the first n characters of s, 0 when none is open: a quote
\* outside a literal opens one, the same quote character closes it
RECURSIVE ClaimLiteralOpen(_, _)
ClaimLiteralOpen(s, n) ==
    IF n = 0 THEN 0
    ELSE LET open == ClaimLiteralOpen(s, n - 1)
         IN  IF open = 0
             THEN IF s[n] \in {"\"", "'"} THEN n ELSE 0
             ELSE IF s[n] = s[open] THEN 0 ELSE open

\* the positions of s outside string literals that hold a character of set
ClaimOutsideLiterals(s, set) ==
    {i \in 1..Len(s) : s[i] \in set /\ ClaimLiteralOpen(s, i - 1) = 0}

\* the bracket depth before position i of s
ClaimDepthBefore(s, i) ==
    Cardinality({j \in ClaimOutsideLiterals(s, {"(", "[", "{"}) : j < i})
        - Cardinality({j \in ClaimOutsideLiterals(s, {")", "]", "}"}) : j < i})

ClaimArgumentCount(s) ==
    IF \A i \in 1..Len(s) : s[i] \in WhiteSpace THEN 0
    ELSE 1 + Cardinality({i \in ClaimOutsideLiterals(s, {","}) :
                             ClaimDepthBefore(s, i) = 0})

\* C12: countArguments returns 0 for a blank string and otherwise 1 plus
\* the number of commas at bracket depth 0 outside single- or double-quoted
\* literals, a literal being closed only by the quote character that opened
\* it; "a, [1,2], {x:1,y:2}" gives 3.
C12_ArgumentCounting ==
    Applied("countArguments")
        => /\ pout.value = ClaimArgumentCount(pin.argsString)
           /\ pin.argsString = ArgsNested => pout.value = 3

\* C12 witness: "f(\"a,b\"), 'c,\"d', e" has three arguments: the commas
\* inside the parentheses and inside both literals are not counted
C12_Witness ==
    /\ Applied("countArguments")
    /\ pin.argsString = ArgsLiterals
    /\ pout.value = 3

\* the text of the cursor's line before the cursor
ClaimTextBeforeCursor(text, offset) ==
    LET breaks == {i \in 1..offset : text[i] = "\n"}
        lineStart == IF breaks = {} THEN 0
                     ELSE CHOOSE i \in breaks : \A j \in breaks : j <= i
    IN  SubSeq(text, lineStart + 1, offset)

\* the quick syntactic check: the nearest '(' before the cursor that no ')'
\* balances has an identifier character before it, white space apart
ClaimQuickCheck(before) ==
    \E p \in 0..(Len(before) - 1) :
        /\ UnbalancedBefore(before, p, Len(before))
        /\ \A q \in (p + 1)..(Len(before) - 1) : ~UnbalancedBefore(before, q, Len(before))
        /\ CalleeBefore(before, p)

\* the parameter names each non-empty answer of the language server declares
ClaimAdapterNames(answer) ==
    IF answer = AnswerRanges THEN <<<<"b">>, <<"a">>>>
    ELSE [i \in 1..Len(DeclaredParameters(answer)) |-> DeclaredParameters(answer)[i].name]

\* C13: provideCompletionItems returns no suggestions when enableCompletion
\* is false, or the quick check on the text before the cursor fails, or the
\* language server is absent, or it yields no parameters; the suggestions it
\* returns carry the language server's parameter names and nothing else,
\* whatever the callee name and fallbackToTypeName.
C13_CompletionGating ==
    Applied("provideCompletionItems") =>
        /\ (\/ ~pin.options.enableCompletion
            \/ ~ClaimQuickCheck(ClaimTextBeforeCursor(pin.text, pin.offset))
            \/ ~pin.javaSupport
            \/ pin.answer \in FailingAnswers \cup {AnswerBadIndex})
              => pout.value.kind = "null"
        /\ pout.value.kind # "null"
              => /\ pin.javaSupport
                 /\ pin.answer \in {AnswerIntAStringB, AnswerOddLabels, AnswerRanges}
                 /\ pout.value.labels = ClaimAdapterNames(pin.answer)
                 /\ pout.value.detail = ClaimJoined(ClaimAdapterNames(pin.answer))

\* C13 witness: on x.setTitle() the suggestions are the language server's a
\* and b, not the setter rule's title
C13_Witness ==
    /\ Applied("provideCompletionItems")
    /\ pin.text = DocSetTitle /\ pin.offset = Len(DocSetTitle) - 1
    /\ pin.options = AllTrue
    /\ pin.javaSupport /\ pin.answer = AnswerIntAStringB
    /\ pout.value.kind = "items"
    /\ pout.value.labels = <<<<"a">>, <<"b">>>>

\* fillArguments was called twice on one filler with the same input
AppliedTwice == pin.fn = "fillArguments" /\ pout.done /\ "first" \in DOMAIN pout

ClaimBracketDepth(line, from, to) ==
    Cardinality({i \in from..(to - 1) : At(line, i) \in {"(", "[", "{"}})
        - Cardinality({i \in from..(to - 1) : At(line, i) \in {")", "]", "}"}})

\* the positions at or after the cursor holding a comma or a closing bracket
\* at depth 0, the depth counted from the cursor
ClaimEndStops(line, character) ==
    {i \in character..(Len(line) - 1) :
        /\ At(line, i) \in {",", ")", "]", "}"}
        /\ ClaimBracketDepth(line, character, i) = 0}

ClaimRangeEnd(line, character) ==
    LET stops == ClaimEndStops(line, character)
    IN  IF stops = {} THEN character
        ELSE CHOOSE i \in stops : \A j \in stops : i <= j

\* the positions before the cursor holding '(' or ','
ClaimStartMarks(line, character) ==
    {i \in 0..(character - 1) : At(line, i) \in {"(", ","}}

ClaimRangeStart(line, character) ==
    LET marks == ClaimStartMarks(line, character)
    IN  IF marks = {} THEN character
        ELSE LET mark == CHOOSE i \in marks : \A j \in marks : j <= i
                 rests == {j \in (mark + 1)..character :
                              j = character \/ ~IsSpace(At(line, j))}
             IN  CHOOSE j \in rests : \A k \in rests : j <= k

\* the cursor's line: the text between the line breaks around offset
ClaimCursorLine(text, offset) ==
    LET breaks == {i \in (offset + 1)..Len(text) : text[i] = "\n"}
        lineEnd == IF breaks = {} THEN Len(text)
                   ELSE (CHOOSE i \in breaks : \A j \in breaks : i <= j) - 1
    IN  ClaimTextBeforeCursor(text, offset) \o SubSeq(text, offset + 1, lineEnd)

\* C15: calculateReplaceRange returns start <= cursor <= end on the
\* cursor's line: end is the first position at or after the cursor holding a
\* comma or closing bracket at depth 0 (the cursor when there is none, string
\* literals not special), start is the position after the nearest '(' or ','
\* before the cursor, advanced over white space but not past the cursor (the
\* cursor when there is none); the suggestions carry that span.
C15_ReplaceRange ==
    /\ Applied("calculateReplaceRange")
          => /\ pout.value.start <= pin.character
             /\ pin.character <= pout.value.end
             /\ pout.value.end <= Len(pin.lineText)
             /\ pout.value.end = ClaimRangeEnd(pin.lineText, pin.character)
             /\ pout.value.start = ClaimRangeStart(pin.lineText, pin.character)
    /\ (Applied("provideCompletionItems") /\ pout.value.kind = "items")
          => LET line == ClaimCursorLine(pin.text, pin.offset)
                 character == Len(ClaimTextBeforeCursor(pin.text, pin.offset))
             IN  /\ pout.value.range.start = ClaimRangeStart(line, character)
                 /\ pout.value.range.end = ClaimRangeEnd(line, character)

\* C15 witness: in "f(x, g(1,2), y)" with the cursor before g the span runs
\* from the cursor to the comma after g(1,2)
C15_Witness ==
    /\ Applied("calculateReplaceRange")
    /\ pin.lineText = LineNested /\ pin.character = 5
    /\ pout.value.start = 5
    /\ pout.value.end = 11

\* the offset right after bar(1,2) in DocNested
AfterBar == Len(DocNested) - 8

\* C16: whenever fillArguments returns a result for a cursor at offset O,
\* replaceStart <= O <= replaceStart + replaceLength; every located context
\* has openOffset < O <= closeOffset; offset 0 gives neither a context nor a
\* result.
C16_CursorInsideRange ==
    /\ (Applied("fillArguments") /\ pout.value.kind = "result")
          => /\ pout.value.replaceStart <= pin.offset
             /\ pin.offset <= pout.value.replaceStart + pout.value.replaceLength
             /\ pin.offset # 0
    /\ (Applied("findMethodCallContext") /\ pout.value.found)
          => /\ pout.value.openParenOffset < pin.offset
             /\ pin.offset <= pout.value.closeParenOffset
             /\ pin.offset # 0

\* C16 witness: with the cursor right after bar(1,2) in
\* "foo(bar(1,2), baz())" the result spans the arguments of foo, the ')' of
\* bar before the cursor being passed over
C16_Witness ==
    /\ Applied("fillArguments")
    /\ pin.text = DocNested /\ pin.offset = AfterBar
    /\ At(pin.text, pin.offset - 1) = ")"
    /\ pout.value.kind = "result"
    /\ pout.value.replaceStart = 4
    /\ pout.value.replaceStart + pout.value.replaceLength = Len(DocNested) - 1

\* a run of the fill command has finished that started right after a run
\* which filled empty parentheses, with the same options, the cursor between
\* the same parentheses and the same signature help answer
SecondFillDone ==
    /\ fpc = "done"
    /\ fill.previous.kind = "repeat"
    /\ fill.answer = fill.previous.answer

\* "void m(){ someMethod(a, b); }"
DocSomeMethodFilled ==
    SubSeq(DocSomeMethod, 1, BetweenParens) \o <<"a", ",", " ", "b">>
        \o SubSeq(DocSomeMethod, BetweenParens + 1, Len(DocSomeMethod))

====
